---- MODULE Spec2Model ----
(***************************************************************************)
(* State-machine model of src/subscription.ts (reactor-core-js): the       *)
(* cancelled sentinel, EmptySubscription, ScalarSubscription,              *)
(* DeferrendScalarSubscription, SuppressFusionSubscriber and SH.           *)
(*                                                                         *)
(* One behaviour follows one subscription object (variant) from its        *)
(* construction.  JavaScript is single-threaded, so the only interleaving  *)
(* is re-entrancy: while the subscriber's onNext callback runs, the        *)
(* method that called it is suspended (a frame on stack) and any method of *)
(* the subscription may be called from inside the callback.  The rest of   *)
(* the suspended method runs in its ...Resume action.                      *)
(*                                                                         *)
(* A method that throws (SH.validRequest on n <= 0, a call through an      *)
(* unset this.s) is recorded with the error in calls; when it was called   *)
(* from inside onNext the callback is taken to handle the error itself, so *)
(* the suspended method still resumes.                                     *)
(***************************************************************************)
EXTENDS Integers, Sequences, FiniteSets

----------------------------------------------------------------------------
(* Bounds of the model *)

\* calls made on the object in one behaviour
MaxCalls == 4
\* onNext callbacks in flight at once (depth of re-entrant delivery)
MaxDepth == 2
\* values a producer passes to complete(t) / a scalar is built with
Values == {1, 2}
\* arguments of request(n)
Demands == {-1, 0, 1}
\* errors a producer passes to EmptySubscription.error(s, e)
Errors == {1, 2}

----------------------------------------------------------------------------
(* JavaScript values *)

\* null, as returned by poll() on an empty queue
Null == 0
\* undefined: an unassigned field, the result of a void method
Undefined == -1

\* flow.FC fusion constants (module ./flow, not part of src/)
FC_NONE == 0
FC_SYNC == 1
FC_ASYNC == 2
FC_BOUNDARY == 4
\* modes passed to requestFusion(mode)
Modes == {FC_NONE, FC_SYNC, FC_ASYNC, FC_ASYNC + FC_BOUNDARY}

\* the bitwise and of two non-negative integers (JavaScript a & b)
RECURSIVE BitAnd(_, _)
BitAnd(a, b) ==
    IF a = 0 \/ b = 0 THEN 0
    ELSE (IF a % 2 = 1 /\ b % 2 = 1 THEN 1 ELSE 0) + 2 * BitAnd(a \div 2, b \div 2)

\* "SH": the behaviour calls the static SH.validSubscription
Variants == {"Cancelled", "Empty", "Scalar", "Deferred", "Suppress", "SH"}
\* the subscriptions of this file a SuppressFusionSubscriber can be handed
Upstreams == {"Cancelled", "Empty", "Scalar", "Deferred"}

VARIABLES
    variant,      \* the class of the object under observation
    once,         \* ScalarSubscription.once ("undefined" until first set)
    scalarValue,  \* ScalarSubscription.mValue
    mState,       \* DeferrendScalarSubscription.mState
    mFused,       \* DeferrendScalarSubscription.mFused
    mValue,       \* DeferrendScalarSubscription.mValue
    s,            \* SuppressFusionSubscriber.s
    stack,        \* suspended methods whose onNext callback is running
    log,          \* callbacks the subscriber (mActual) has received
    calls,        \* history: the calls made so far, with their outcome
    upCalls       \* history: calls received by the adapter's upstream

vars == <<variant, once, scalarValue, mState, mFused, mValue, s, stack, log,
          calls, upCalls>>

scalarVars == <<once, scalarValue>>
deferredVars == <<mState, mFused, mValue>>

----------------------------------------------------------------------------
(* History records *)

\* index the next call gets in calls
NextCall == Len(calls) + 1
\* the call inside whose onNext callback the next call is made (0: none)
Inside == IF stack = <<>> THEN 0 ELSE stack[Len(stack)].by

\* current and incoming are the arguments of SH.validSubscription ("" for
\* every other call)
Call(obj, op, arg, threw, ret) ==
    [obj |-> obj, op |-> op, arg |-> arg, inside |-> Inside,
     threw |-> threw, ret |-> ret, current |-> "", incoming |-> ""]

Record(obj, op, arg, threw, ret) ==
    calls' = Append(calls, Call(obj, op, arg, threw, ret))

\* log entries: the callback, its value argument, its subscription argument
\* and the call (index in calls) whose method delivered it
OnSubscribe(sub) == [cb |-> "onSubscribe", val |-> Undefined, sub |-> sub, by |-> NextCall]
OnNext(v) == [cb |-> "onNext", val |-> v, sub |-> "", by |-> NextCall]
OnComplete(k) == [cb |-> "onComplete", val |-> Undefined, sub |-> "", by |-> k]
OnError(e) == [cb |-> "onError", val |-> e, sub |-> "", by |-> NextCall]

Frame(path) == [by |-> NextCall, path |-> path]

CanCall == Len(calls) < MaxCalls
CanPush == Len(stack) < MaxDepth

----------------------------------------------------------------------------
(* SH *)

\* validRequest with the comparison n < 0: zero demand is accepted
validRequest_acceptsZero(n) == ~(n < 0)

\* SH.validRequest(n): TRUE when it returns true, FALSE when it throws
validRequest(n) == ~(n <= 0)

InvalidDemand == "n > 0 required"
NoError == ""

\* boolean results, as they are recorded in calls
RetTrue == 1
RetFalse == 0

\* x == null in JavaScript: null or undefined
IsNull(x) == x \in {"null", "undefined"}

\* arguments of SH.validSubscription(current, s)
Currents == {"null", "undefined", "Cancelled", "Scalar"}
Incomings == {"null", "undefined", "Scalar", "Deferred"}

NullSubscription == "s is null"
AlreadySet == "Subscription already set!"

\* the error validSubscription throws, NoError when it returns
SH_validSubscriptionThrew(current, incoming) ==
    IF IsNull(incoming) THEN NullSubscription
    ELSE IF ~IsNull(current) /\ current # "Cancelled" THEN AlreadySet
    ELSE NoError

\* what validSubscription returns when it does not throw
SH_validSubscriptionRet(current, incoming) ==
    IF ~IsNull(current) THEN RetFalse ELSE RetTrue

\* s.cancel() placed after the already-set check: reached only when
\* current is the cancelled sentinel
SH_cancelsIncoming_afterCheck(current, incoming) ==
    ~IsNull(incoming) /\ current = "Cancelled"

\* whether validSubscription calls s.cancel()
SH_cancelsIncoming(current, incoming) ==
    ~IsNull(incoming) /\ ~IsNull(current)

----------------------------------------------------------------------------
(* ScalarSubscription *)

\* JavaScript truthiness of the once field
Truthy(x) == x = "true"

S_isEmpty == once
S_size == IF Truthy(once) THEN 0 ELSE 1

\* request(n) that marks the value delivered before validating n
S_requestBody_marksFirst(obj, n) ==
    IF ~validRequest(n)
    THEN /\ Record(obj, "request", n, InvalidDemand, Undefined)
         /\ once' = "true"
         /\ UNCHANGED <<stack, log>>
    ELSE /\ Record(obj, "request", n, NoError, Undefined)
         /\ IF ~Truthy(once)
            THEN /\ CanPush
                 /\ once' = "true"
                 /\ log' = Append(log, OnNext(scalarValue))
                 /\ stack' = Append(stack, Frame("Scalar.request"))
            ELSE UNCHANGED <<once, stack, log>>

\* request(n) up to and including the call of mActual.onNext
S_requestBody(obj, n) ==
    IF ~validRequest(n)
    THEN /\ Record(obj, "request", n, InvalidDemand, Undefined)
         /\ UNCHANGED <<once, stack, log>>
    ELSE /\ Record(obj, "request", n, NoError, Undefined)
         /\ IF ~Truthy(once)
            THEN /\ CanPush
                 /\ once' = "true"
                 /\ log' = Append(log, OnNext(scalarValue))
                 /\ stack' = Append(stack, Frame("Scalar.request"))
            ELSE UNCHANGED <<once, stack, log>>

S_request(n) ==
    /\ variant = "Scalar"
    /\ CanCall
    /\ S_requestBody("Scalar", n)
    /\ UNCHANGED <<variant, scalarValue, deferredVars, s, upCalls>>

\* request(n) after onNext returned: mActual.onComplete()
S_requestResume ==
    /\ stack # <<>>
    /\ stack[Len(stack)].path = "Scalar.request"
    /\ log' = Append(log, OnComplete(stack[Len(stack)].by))
    /\ stack' = SubSeq(stack, 1, Len(stack) - 1)
    /\ UNCHANGED <<variant, scalarVars, deferredVars, s, calls, upCalls>>

S_cancelBody(obj) ==
    /\ Record(obj, "cancel", Undefined, NoError, Undefined)
    /\ once' = "true"
    /\ UNCHANGED <<stack, log>>

S_cancel ==
    /\ variant = "Scalar"
    /\ CanCall
    /\ S_cancelBody("Scalar")
    /\ UNCHANGED <<variant, scalarValue, deferredVars, s, upCalls>>

\* what poll() returns in the current state
S_pollRet == IF ~Truthy(once) THEN scalarValue ELSE Null

\* poll() that returns the value without marking it as taken
S_poll_keepsValue ==
    /\ variant = "Scalar"
    /\ CanCall
    /\ Record("Scalar", "poll", Undefined, NoError, S_pollRet)
    /\ UNCHANGED <<variant, scalarVars, deferredVars, s, stack, log, upCalls>>

S_poll ==
    /\ variant = "Scalar"
    /\ CanCall
    /\ Record("Scalar", "poll", Undefined, NoError, S_pollRet)
    /\ IF ~Truthy(once) THEN once' = "true" ELSE UNCHANGED once
    /\ UNCHANGED <<variant, scalarValue, deferredVars, s, stack, log, upCalls>>

S_clear ==
    /\ variant = "Scalar"
    /\ CanCall
    /\ once' = "true"
    /\ Record("Scalar", "clear", Undefined, NoError, Undefined)
    /\ UNCHANGED <<variant, scalarValue, deferredVars, s, stack, log, upCalls>>

S_requestFusionRet(mode) ==
    IF BitAnd(mode, FC_SYNC) # 0 THEN FC_SYNC ELSE FC_NONE

S_requestFusion(mode) ==
    /\ variant = "Scalar"
    /\ CanCall
    /\ Record("Scalar", "requestFusion", mode, NoError, S_requestFusionRet(mode))
    /\ UNCHANGED <<variant, scalarVars, deferredVars, s, stack, log, upCalls>>

----------------------------------------------------------------------------
(* DeferrendScalarSubscription *)

D_isEmpty == mFused # "HAS_VALUE"
D_size == IF D_isEmpty THEN 0 ELSE 1

\* what poll() returns in the current state
D_pollRet == IF mFused = "HAS_VALUE" THEN mValue ELSE Null

\* the check after onNext with its sense inverted
D_notCancelled_inverted == mState = "CANCELLED"

\* the check made after onNext returned, before onComplete (lines 166, 184)
D_notCancelled == mState # "CANCELLED"

\* complete(t) up to and including the call of mActual.onNext
D_completeBody(obj, t) ==
    /\ Record(obj, "complete", t, NoError, Undefined)
    /\ IF mFused = "NO_VALUE"
       THEN /\ CanPush
            /\ mValue' = t
            /\ mFused' = "HAS_VALUE"
            /\ log' = Append(log, OnNext(t))
            /\ stack' = Append(stack, Frame("Deferred.complete.fused"))
            /\ UNCHANGED mState
       ELSE IF mState = "HAS_REQUEST_NO_VALUE"
       THEN /\ CanPush
            /\ mState' = "HAS_REQUEST_HAS_VALUE"
            /\ log' = Append(log, OnNext(t))
            /\ stack' = Append(stack, Frame("Deferred.complete"))
            /\ UNCHANGED <<mFused, mValue>>
       ELSE IF mState = "NO_REQUEST_NO_VALUE"
       THEN /\ mValue' = t
            /\ mState' = "NO_REQUEST_HAS_VALUE"
            /\ UNCHANGED <<mFused, stack, log>>
       ELSE UNCHANGED <<mState, mFused, mValue, stack, log>>

D_complete(t) ==
    /\ variant = "Deferred"
    /\ CanCall
    /\ D_completeBody("Deferred", t)
    /\ UNCHANGED <<variant, scalarVars, s, upCalls>>

\* complete(t), fused branch, after onNext returned: mActual.onComplete()
D_completeFusedResume ==
    /\ stack # <<>>
    /\ stack[Len(stack)].path = "Deferred.complete.fused"
    /\ log' = Append(log, OnComplete(stack[Len(stack)].by))
    /\ stack' = SubSeq(stack, 1, Len(stack) - 1)
    /\ UNCHANGED <<variant, scalarVars, deferredVars, s, calls, upCalls>>

\* complete(t), request/value branch, after onNext returned
D_completeResume ==
    /\ stack # <<>>
    /\ stack[Len(stack)].path = "Deferred.complete"
    /\ log' = IF D_notCancelled
              THEN Append(log, OnComplete(stack[Len(stack)].by))
              ELSE log
    /\ stack' = SubSeq(stack, 1, Len(stack) - 1)
    /\ UNCHANGED <<variant, scalarVars, deferredVars, s, calls, upCalls>>

\* request(n) up to and including the call of mActual.onNext
D_requestBody(obj, n) ==
    IF ~validRequest(n)
    THEN /\ Record(obj, "request", n, InvalidDemand, Undefined)
         /\ UNCHANGED <<mState, mFused, mValue, stack, log>>
    ELSE /\ Record(obj, "request", n, NoError, Undefined)
         /\ IF mState = "NO_REQUEST_HAS_VALUE"
            THEN /\ CanPush
                 /\ mState' = "HAS_REQUEST_HAS_VALUE"
                 /\ log' = Append(log, OnNext(mValue))
                 /\ stack' = Append(stack, Frame("Deferred.request"))
                 /\ UNCHANGED <<mFused, mValue>>
            ELSE IF mState = "NO_REQUEST_NO_VALUE"
            THEN /\ mState' = "HAS_REQUEST_NO_VALUE"
                 /\ UNCHANGED <<mFused, mValue, stack, log>>
            ELSE UNCHANGED <<mState, mFused, mValue, stack, log>>

D_request(n) ==
    /\ variant = "Deferred"
    /\ CanCall
    /\ D_requestBody("Deferred", n)
    /\ UNCHANGED <<variant, scalarVars, s, upCalls>>

\* request(n) after onNext returned
D_requestResume ==
    /\ stack # <<>>
    /\ stack[Len(stack)].path = "Deferred.request"
    /\ log' = IF D_notCancelled
              THEN Append(log, OnComplete(stack[Len(stack)].by))
              ELSE log
    /\ stack' = SubSeq(stack, 1, Len(stack) - 1)
    /\ UNCHANGED <<variant, scalarVars, deferredVars, s, calls, upCalls>>

D_cancelBody(obj) ==
    /\ Record(obj, "cancel", Undefined, NoError, Undefined)
    /\ mState' = "CANCELLED"
    /\ mFused' = "COMPLETE"
    /\ UNCHANGED <<mValue, stack, log>>

D_cancel ==
    /\ variant = "Deferred"
    /\ CanCall
    /\ D_cancelBody("Deferred")
    /\ UNCHANGED <<variant, scalarVars, s, upCalls>>

\* requestFusion testing only the ASYNC bit
D_grants_ignoresBoundary(mode) == BitAnd(mode, FC_ASYNC) # 0

\* whether requestFusion(mode) grants async fusion
D_grants(mode) == BitAnd(mode, FC_ASYNC) # 0 /\ BitAnd(mode, FC_BOUNDARY) = 0

\* what requestFusion(mode) returns
D_requestFusionRet(mode) == IF D_grants(mode) THEN FC_ASYNC ELSE FC_NONE

D_requestFusion(mode) ==
    /\ variant = "Deferred"
    /\ CanCall
    /\ Record("Deferred", "requestFusion", mode, NoError, D_requestFusionRet(mode))
    /\ IF D_grants(mode) THEN mFused' = "NO_VALUE" ELSE UNCHANGED mFused
    /\ UNCHANGED <<variant, scalarVars, mState, mValue, s, stack, log, upCalls>>

D_poll ==
    /\ variant = "Deferred"
    /\ CanCall
    /\ Record("Deferred", "poll", Undefined, NoError, D_pollRet)
    /\ IF mFused = "HAS_VALUE" THEN mFused' = "COMPLETE" ELSE UNCHANGED mFused
    /\ UNCHANGED <<variant, scalarVars, mState, mValue, s, stack, log, upCalls>>

D_clear ==
    /\ variant = "Deferred"
    /\ CanCall
    /\ mFused' = "COMPLETE"
    /\ Record("Deferred", "clear", Undefined, NoError, Undefined)
    /\ UNCHANGED <<variant, scalarVars, mState, mValue, s, stack, log, upCalls>>

----------------------------------------------------------------------------
(* The cancelled sentinel (class CancelledSubscription) *)

C_request(n) ==
    /\ variant = "Cancelled"
    /\ CanCall
    /\ Record("Cancelled", "request", n, NoError, Undefined)
    /\ UNCHANGED <<variant, scalarVars, deferredVars, s, stack, log, upCalls>>

C_cancel ==
    /\ variant = "Cancelled"
    /\ CanCall
    /\ Record("Cancelled", "cancel", Undefined, NoError, Undefined)
    /\ UNCHANGED <<variant, scalarVars, deferredVars, s, stack, log, upCalls>>

----------------------------------------------------------------------------
(* EmptySubscription *)

E_isEmpty == TRUE
E_size == 0

E_request(n) ==
    /\ variant = "Empty"
    /\ CanCall
    /\ Record("Empty", "request", n, NoError, Undefined)
    /\ UNCHANGED <<variant, scalarVars, deferredVars, s, stack, log, upCalls>>

E_cancel ==
    /\ variant = "Empty"
    /\ CanCall
    /\ Record("Empty", "cancel", Undefined, NoError, Undefined)
    /\ UNCHANGED <<variant, scalarVars, deferredVars, s, stack, log, upCalls>>

E_requestFusion(mode) ==
    /\ variant = "Empty"
    /\ CanCall
    /\ Record("Empty", "requestFusion", mode, NoError, FC_NONE)
    /\ UNCHANGED <<variant, scalarVars, deferredVars, s, stack, log, upCalls>>

E_poll ==
    /\ variant = "Empty"
    /\ CanCall
    /\ Record("Empty", "poll", Undefined, NoError, Null)
    /\ UNCHANGED <<variant, scalarVars, deferredVars, s, stack, log, upCalls>>

E_clear ==
    /\ variant = "Empty"
    /\ CanCall
    /\ Record("Empty", "clear", Undefined, NoError, Undefined)
    /\ UNCHANGED <<variant, scalarVars, deferredVars, s, stack, log, upCalls>>

\* complete(s) signalling completion before the subscription is set
E_complete_completesFirst ==
    /\ variant = "Empty"
    /\ CanCall
    /\ log' = log \o <<OnComplete(NextCall), OnSubscribe("Empty")>>
    /\ Record("Empty", "complete", Undefined, NoError, Undefined)
    /\ UNCHANGED <<variant, scalarVars, deferredVars, s, stack, upCalls>>

\* static complete(s): s.onSubscribe(INSTANCE); s.onComplete()
E_complete ==
    /\ variant = "Empty"
    /\ CanCall
    /\ log' = log \o <<OnSubscribe("Empty"), OnComplete(NextCall)>>
    /\ Record("Empty", "complete", Undefined, NoError, Undefined)
    /\ UNCHANGED <<variant, scalarVars, deferredVars, s, stack, upCalls>>

\* static error(s, e): s.onSubscribe(INSTANCE); s.onError(e)
E_error(e) ==
    /\ variant = "Empty"
    /\ CanCall
    /\ log' = log \o <<OnSubscribe("Empty"), OnError(e)>>
    /\ Record("Empty", "error", e, NoError, Undefined)
    /\ UNCHANGED <<variant, scalarVars, deferredVars, s, stack, upCalls>>

----------------------------------------------------------------------------
(* SuppressFusionSubscriber *)

F_isEmpty == TRUE
F_size == 0
\* requestFusion handing the question to the upstream subscription
F_requestFusionRet_forwarding(mode) ==
    IF s = "Scalar" THEN S_requestFusionRet(mode)
    ELSE IF s = "Deferred" /\ D_grants(mode) THEN FC_ASYNC
    ELSE FC_NONE

F_requestFusionRet(mode) == FC_NONE
F_pollRet == Null

TypeError == "TypeError"
\* a call the upstream receives: the method, its argument, the receiver
UpCall(op, arg) == [op |-> op, arg |-> arg, to |-> s, by |-> NextCall]

\* onSubscribe handing the upstream itself to the wrapped subscriber
F_onSubscribe_passesUpstream(u) ==
    /\ variant = "Suppress"
    /\ CanCall
    /\ s' = u
    /\ log' = Append(log, OnSubscribe(u))
    /\ Record("Suppress", "onSubscribe", Undefined, NoError, Undefined)
    /\ UNCHANGED <<variant, scalarVars, deferredVars, stack, upCalls>>

F_onSubscribe(u) ==
    /\ variant = "Suppress"
    /\ CanCall
    /\ s' = u
    /\ log' = Append(log, OnSubscribe("Suppress"))
    /\ Record("Suppress", "onSubscribe", Undefined, NoError, Undefined)
    /\ UNCHANGED <<variant, scalarVars, deferredVars, stack, upCalls>>

\* request(n): this.s.request(n), on whichever subscription s is
F_request(n) ==
    /\ variant = "Suppress"
    /\ CanCall
    /\ \/ /\ s = "undefined"
          /\ Record("Suppress", "request", n, TypeError, Undefined)
          /\ UNCHANGED <<scalarVars, deferredVars, stack, log, upCalls>>
       \/ /\ s \in {"Cancelled", "Empty"}
          /\ upCalls' = Append(upCalls, UpCall("request", n))
          /\ Record("Suppress", "request", n, NoError, Undefined)
          /\ UNCHANGED <<scalarVars, deferredVars, stack, log>>
       \/ /\ s = "Scalar"
          /\ upCalls' = Append(upCalls, UpCall("request", n))
          /\ S_requestBody("Suppress", n)
          /\ UNCHANGED <<scalarValue, deferredVars>>
       \/ /\ s = "Deferred"
          /\ upCalls' = Append(upCalls, UpCall("request", n))
          /\ D_requestBody("Suppress", n)
          /\ UNCHANGED scalarVars
    /\ UNCHANGED <<variant, s>>

\* cancel(): this.s.cancel()
F_cancel ==
    /\ variant = "Suppress"
    /\ CanCall
    /\ \/ /\ s = "undefined"
          /\ Record("Suppress", "cancel", Undefined, TypeError, Undefined)
          /\ UNCHANGED <<scalarVars, deferredVars, stack, log, upCalls>>
       \/ /\ s \in {"Cancelled", "Empty"}
          /\ upCalls' = Append(upCalls, UpCall("cancel", Undefined))
          /\ Record("Suppress", "cancel", Undefined, NoError, Undefined)
          /\ UNCHANGED <<scalarVars, deferredVars, stack, log>>
       \/ /\ s = "Scalar"
          /\ upCalls' = Append(upCalls, UpCall("cancel", Undefined))
          /\ S_cancelBody("Suppress")
          /\ UNCHANGED <<scalarValue, deferredVars>>
       \/ /\ s = "Deferred"
          /\ upCalls' = Append(upCalls, UpCall("cancel", Undefined))
          /\ D_cancelBody("Suppress")
          /\ UNCHANGED scalarVars
    /\ UNCHANGED <<variant, s>>

F_requestFusion(mode) ==
    /\ variant = "Suppress"
    /\ CanCall
    /\ Record("Suppress", "requestFusion", mode, NoError, F_requestFusionRet(mode))
    /\ UNCHANGED <<variant, scalarVars, deferredVars, s, stack, log, upCalls>>

F_poll ==
    /\ variant = "Suppress"
    /\ CanCall
    /\ Record("Suppress", "poll", Undefined, NoError, F_pollRet)
    /\ UNCHANGED <<variant, scalarVars, deferredVars, s, stack, log, upCalls>>

F_clear ==
    /\ variant = "Suppress"
    /\ CanCall
    /\ Record("Suppress", "clear", Undefined, NoError, Undefined)
    /\ UNCHANGED <<variant, scalarVars, deferredVars, s, stack, log, upCalls>>

\* the producer completes the DeferrendScalarSubscription the adapter wraps
F_upstreamComplete(t) ==
    /\ variant = "Suppress"
    /\ s = "Deferred"
    /\ CanCall
    /\ D_completeBody("Deferred", t)
    /\ UNCHANGED <<variant, scalarVars, s, upCalls>>

----------------------------------------------------------------------------
(* SH.validSubscription *)

\* validSubscription(current, s); s.cancel() acts on the incoming object
SH_validSubscription(current, incoming) ==
    /\ variant = "SH"
    /\ CanCall
    /\ calls' = Append(calls,
           [Call("SH", "validSubscription", Undefined,
                 SH_validSubscriptionThrew(current, incoming),
                 IF SH_validSubscriptionThrew(current, incoming) = NoError
                 THEN SH_validSubscriptionRet(current, incoming)
                 ELSE Undefined)
            EXCEPT !.current = current, !.incoming = incoming])
    /\ IF SH_cancelsIncoming(current, incoming)
       THEN /\ upCalls' = Append(upCalls,
                   [UpCall("cancel", Undefined) EXCEPT !.to = incoming])
            /\ IF incoming = "Scalar"
               THEN once' = "true" /\ UNCHANGED <<mState, mFused>>
               ELSE /\ mState' = "CANCELLED"
                    /\ mFused' = "COMPLETE"
                    /\ UNCHANGED once
       ELSE UNCHANGED <<upCalls, once, mState, mFused>>
    /\ UNCHANGED <<variant, scalarValue, mValue, s, stack, log>>

----------------------------------------------------------------------------
(* Specification *)

Init ==
    /\ variant \in Variants
    /\ once = "undefined"
    /\ scalarValue \in Values
    /\ mState = "NO_REQUEST_NO_VALUE"
    /\ mFused = "NOT_FUSED"
    /\ mValue = Undefined
    /\ s = "undefined"
    /\ stack = <<>>
    /\ log = <<>>
    /\ calls = <<>>
    /\ upCalls = <<>>

Next ==
    \/ \E n \in Demands : C_request(n)
    \/ C_cancel
    \/ \E n \in Demands : E_request(n)
    \/ E_cancel
    \/ \E mode \in Modes : E_requestFusion(mode)
    \/ E_poll
    \/ E_clear
    \/ E_complete
    \/ \E e \in Errors : E_error(e)
    \/ \E n \in Demands : S_request(n)
    \/ S_requestResume
    \/ S_cancel
    \/ S_poll
    \/ S_clear
    \/ \E mode \in Modes : S_requestFusion(mode)
    \/ \E t \in Values : D_complete(t)
    \/ D_completeFusedResume
    \/ D_completeResume
    \/ \E n \in Demands : D_request(n)
    \/ D_requestResume
    \/ D_cancel
    \/ \E mode \in Modes : D_requestFusion(mode)
    \/ D_poll
    \/ D_clear
    \/ \E u \in Upstreams : F_onSubscribe(u)
    \/ \E n \in Demands : F_request(n)
    \/ F_cancel
    \/ \E mode \in Modes : F_requestFusion(mode)
    \/ F_poll
    \/ F_clear
    \/ \E t \in Values : F_upstreamComplete(t)
    \/ \E current \in Currents : \E incoming \in Incomings :
           SH_validSubscription(current, incoming)

Spec == Init /\ [][Next]_vars

----------------------------------------------------------------------------
(* Reading the histories *)

CallIds == 1..Len(calls)
LogIds == 1..Len(log)

\* the calls made so far are exactly these <<operation, argument>> pairs
CallsAre(seq) ==
    /\ Len(calls) = Len(seq)
    /\ \A k \in 1..Len(seq) : calls[k].op = seq[k][1] /\ calls[k].arg = seq[k][2]

\* the callbacks received so far are exactly these <<callback, value>> pairs
LogIs(seq) ==
    /\ Len(log) = Len(seq)
    /\ \A i \in 1..Len(seq) : log[i].cb = seq[i][1] /\ log[i].val = seq[i][2]

Idle == stack = <<>>

----------------------------------------------------------------------------
(* C1 *)

\* C1: DeferrendScalarSubscription, never fused, never cancelled: after
\* exactly one complete(v) and one request(n), n > 0, in either order, the
\* subscriber has received onNext(v) then onComplete() and nothing else
\* (only onNext(v) while that callback is still running), and it has
\* received nothing while only the first of the two calls was made.
C1_EitherOrderDeliversOnce ==
    \A v \in Values : \A n \in Demands :
        (variant = "Deferred" /\ n > 0) =>
            /\ (CallsAre(<< <<"complete", v>> >>) \/ CallsAre(<< <<"request", n>> >>))
                   => log = <<>>
            /\ (\/ CallsAre(<< <<"complete", v>>, <<"request", n>> >>)
                \/ CallsAre(<< <<"request", n>>, <<"complete", v>> >>))
                   => IF Idle
                      THEN /\ LogIs(<< <<"onNext", v>>, <<"onComplete", Undefined>> >>)
                           /\ log[1].by = 2 /\ log[2].by = 2
                      ELSE LogIs(<< <<"onNext", v>> >>)

\* value first, then the request: both callbacks delivered by the request
C1_Witness ==
    /\ variant = "Deferred"
    /\ CallsAre(<< <<"complete", 2>>, <<"request", 1>> >>)
    /\ Idle
    /\ Len(log) = 2

----------------------------------------------------------------------------
(* C2 *)

\* C2: DeferrendScalarSubscription: no callback is delivered by a call of
\* complete or request that was made after a cancel() (the callbacks of a
\* call are tagged with its index; a later call has a larger index).
C2_NoDeliveryAfterCancel ==
    variant = "Deferred" =>
        \A k \in CallIds : \A i \in LogIds :
            calls[k].op = "cancel" => log[i].by < k

----------------------------------------------------------------------------
(* C3 *)

\* C3: DeferrendScalarSubscription: the subscriber receives onComplete()
\* at most once, whatever calls are made and wherever they are made from.
C3_OnCompleteAtMostOnce ==
    variant = "Deferred" =>
        Cardinality({i \in LogIds : log[i].cb = "onComplete"}) <= 1

----------------------------------------------------------------------------
(* C4 *)

\* C4: DeferrendScalarSubscription: when cancel() is called from inside the
\* onNext callback of a delivering complete or request call, that call
\* delivers no onComplete().
C4_CancelInOnNextDropsOnComplete ==
    variant = "Deferred" =>
        \A k \in CallIds :
            (calls[k].op = "cancel" /\ calls[k].inside # 0) =>
                ~\E i \in LogIds :
                    log[i].cb = "onComplete" /\ log[i].by = calls[k].inside

----------------------------------------------------------------------------
(* C5 *)

\* the calls so far: a granted requestFusion first, then only poll() and at
\* most one complete
C5_FusedFirst ==
    /\ variant = "Deferred"
    /\ Len(calls) >= 1
    /\ calls[1].op = "requestFusion" /\ calls[1].ret = FC_ASYNC
    /\ \A k \in 2..Len(calls) : calls[k].op \in {"poll", "complete"}
    /\ Cardinality({k \in CallIds : calls[k].op = "complete"}) <= 1

\* poll() returns the completed value on the first poll after complete(v)
\* and empty on every other poll
C5_PollsValueOnce ==
    C5_FusedFirst =>
        \A k \in CallIds :
            calls[k].op = "poll" =>
                LET before == {j \in 1..(k - 1) : calls[j].op = "complete"}
                    first == \A j \in 1..(k - 1) :
                                 calls[j].op = "poll" => \A c \in before : j < c
                IN  IF before # {} /\ first
                    THEN \A c \in before : calls[k].ret = calls[c].arg
                    ELSE calls[k].ret = Null

\* C5: DeferrendScalarSubscription fused before any complete: poll() is
\* empty until complete(v), yields v exactly once, is empty afterwards, and
\* the subscriber receives no onNext and no onComplete.
C5_FusedPathPullsOnly ==
    /\ C5_PollsValueOnce
    /\ C5_FusedFirst => log = <<>>

----------------------------------------------------------------------------
(* C6 *)

\* C6: ScalarSubscription and DeferrendScalarSubscription: every onNext the
\* subscriber received was delivered by, or after, a request(n) with n > 0.
C6_OnNextOnlyAfterRequest ==
    variant \in {"Scalar", "Deferred"} =>
        \A i \in LogIds :
            log[i].cb = "onNext" =>
                \E k \in 1..log[i].by : calls[k].op = "request" /\ calls[k].arg > 0

----------------------------------------------------------------------------
(* C7 *)

LastCall == calls[Len(calls)]

\* C7 as stated: every request(n) with n <= 0, on any variant, fails with
\* the invalid-demand error.
C7_EveryVariantRejects ==
    \A k \in CallIds :
        (calls[k].op = "request" /\ calls[k].arg <= 0) =>
            calls[k].threw = InvalidDemand

\* how a request(n), n <= 0, ends on each class (for the adapter: with the
\* upstream it holds)
C7_Outcome(obj) ==
    IF obj \in {"Scalar", "Deferred"} THEN InvalidDemand
    ELSE IF obj \in {"Cancelled", "Empty"} THEN NoError
    ELSE IF s = "undefined" THEN TypeError
    ELSE IF s \in {"Scalar", "Deferred"} THEN InvalidDemand
    ELSE NoError

\* C7 (amended): request(n) with n <= 0 fails with the invalid-demand error
\* on ScalarSubscription and DeferrendScalarSubscription; the cancelled
\* sentinel and EmptySubscription ignore it; SuppressFusionSubscriber hands
\* n to its upstream unchecked and fails exactly as the upstream does.
\* (Stated of the call just made; every call is the last one once.)
C7_InvalidDemandPerVariant ==
    (Len(calls) > 0 /\ LastCall.op = "request" /\ LastCall.arg <= 0) =>
        LastCall.threw = C7_Outcome(LastCall.obj)

\* the adapter forwarded request(0) to a ScalarSubscription, which threw
C7_Witness ==
    /\ variant = "Suppress"
    /\ s = "Scalar"
    /\ Len(calls) > 0
    /\ LastCall.op = "request" /\ LastCall.arg = 0
    /\ LastCall.threw = InvalidDemand

----------------------------------------------------------------------------
(* C8 *)

Pushes == {i \in LogIds : log[i].cb = "onNext"}
Pulls == {k \in CallIds : calls[k].op = "poll" /\ calls[k].ret # Null}

\* C8: ScalarSubscription: the value is yielded at most once, by onNext
\* (followed by onComplete of the same request) or by a poll, never both;
\* once yielded isEmpty() is true and size() is 0; no other callback is ever
\* delivered and no other poll returns a value.
C8_ScalarYieldsOnce ==
    variant = "Scalar" =>
        /\ Cardinality(Pushes) + Cardinality(Pulls) <= 1
        /\ \A i \in Pushes : log[i].val = scalarValue
        /\ \A k \in Pulls : calls[k].ret = scalarValue
        /\ (Pushes # {} \/ Pulls # {}) => (S_isEmpty = "true" /\ S_size = 0)
        /\ Len(log) <= 2
        /\ Len(log) >= 1 => log[1].cb = "onNext"
        /\ Len(log) = 2 => (log[2].cb = "onComplete" /\ log[2].by = log[1].by)
        /\ (Len(log) = 1) = ~Idle

\* pushed, then a later poll and a later valid request found it empty
C8_Witness ==
    /\ variant = "Scalar"
    /\ Idle
    /\ Len(log) = 2
    /\ \E j \in CallIds : \E k \in CallIds :
           /\ j > log[1].by /\ calls[j].op = "poll"
           /\ k > log[1].by /\ calls[k].op = "request" /\ calls[k].arg > 0

----------------------------------------------------------------------------
(* C9 *)

\* this step is a call of cancel() on a scalar or deferred subscription
C9_CancelStep ==
    /\ Len(calls') = Len(calls) + 1
    /\ calls'[Len(calls')].op = "cancel"
    /\ variant \in {"Scalar", "Deferred"}

\* the value and the completion have been delivered
C9_Completed ==
    /\ Idle
    /\ \E i \in LogIds : log[i].cb = "onNext"
    /\ \E i \in LogIds : log[i].cb = "onComplete"

\* what poll, isEmpty and size would show
C9_QueueView == <<S_pollRet, S_isEmpty, S_size, D_pollRet, D_isEmpty, D_size>>

\* C9: cancel() is idempotent on ScalarSubscription and
\* DeferrendScalarSubscription: a cancel() right after a cancel() changes no
\* field, and a cancel() after the value and the completion were delivered
\* delivers nothing and changes nothing poll/isEmpty/size show.
C9_CancelIdempotent ==
    [][C9_CancelStep =>
        /\ log' = log
        /\ (Len(calls) > 0 /\ LastCall.op = "cancel")
               => UNCHANGED <<once, mState, mFused, mValue>>
        /\ C9_Completed => C9_QueueView' = C9_QueueView]_vars

----------------------------------------------------------------------------
(* C10 *)

\* calls the adapter hands to its upstream: request and cancel, once it has one
C10_Forwarded ==
    {k \in CallIds : /\ calls[k].obj = "Suppress"
                     /\ calls[k].op \in {"request", "cancel"}
                     /\ calls[k].threw # TypeError}

\* C10: SuppressFusionSubscriber: requestFusion(mode) returns NONE and
\* poll() returns empty on every call, isEmpty() is true and size() is 0 in
\* every state, whatever the upstream is and holds; the upstream receives
\* only the forwarded request and cancel calls and is untouched until then.
C10_AdapterHidesFusion ==
    variant = "Suppress" =>
        /\ F_isEmpty = TRUE
        /\ F_size = 0
        /\ \A k \in CallIds :
               calls[k].obj = "Suppress" =>
                   /\ calls[k].op = "requestFusion" => calls[k].ret = FC_NONE
                   /\ calls[k].op = "poll" => calls[k].ret = Null
        /\ Len(upCalls) = Cardinality(C10_Forwarded)
        /\ upCalls = <<>> =>
               /\ once = "undefined"
               /\ mFused = "NOT_FUSED"
               /\ mState \in {"NO_REQUEST_NO_VALUE", "NO_REQUEST_HAS_VALUE"}

\* the upstream is a ScalarSubscription still holding its value (size 1,
\* would grant SYNC); the adapter was asked for SYNC fusion and polled
C10_Witness ==
    /\ variant = "Suppress"
    /\ s = "Scalar"
    /\ S_size = 1
    /\ \E k \in CallIds : calls[k].op = "requestFusion" /\ calls[k].arg = FC_SYNC
    /\ \E k \in CallIds : calls[k].op = "poll"

----------------------------------------------------------------------------
(* C11 *)

C11_IsForwarded(c) ==
    c.obj = "Suppress" /\ c.op \in {"request", "cancel"} /\ c.threw # TypeError

\* the request and cancel calls made on the adapter once it had an upstream
C11_Forwarded == SelectSeq(calls, C11_IsForwarded)

\* C11: SuppressFusionSubscriber: the upstream receives exactly the
\* request(n) and cancel() calls made on the adapter after onSubscribe, one
\* for one, same n, same order, each on the subscription the adapter holds;
\* and every onSubscribe the wrapped subscriber receives carries the adapter.
C11_ForwardsOneForOne ==
    variant = "Suppress" =>
        /\ Len(upCalls) = Len(C11_Forwarded)
        /\ \A j \in 1..Len(upCalls) :
               /\ upCalls[j].op = C11_Forwarded[j].op
               /\ upCalls[j].arg = C11_Forwarded[j].arg
        /\ (Len(calls) > 0 /\ C11_IsForwarded(calls[Len(calls)]))
               => upCalls[Len(upCalls)].to = s
        /\ \A i \in LogIds :
               log[i].cb = "onSubscribe" => log[i].sub = "Suppress"

\* request(1) then cancel() forwarded, in that order, after onSubscribe
C11_Witness ==
    /\ variant = "Suppress"
    /\ \E i \in LogIds : log[i].cb = "onSubscribe"
    /\ Len(upCalls) = 2
    /\ upCalls[1].op = "request" /\ upCalls[1].arg = 1
    /\ upCalls[2].op = "cancel"

----------------------------------------------------------------------------
(* C12 *)

C12_IsStatic(c) == c.obj = "Empty" /\ c.op \in {"complete", "error"}

\* the calls of EmptySubscription.complete and EmptySubscription.error
C12_Static == SelectSeq(calls, C12_IsStatic)

\* C12: EmptySubscription.complete(s) delivers exactly onSubscribe(the
\* singleton) then onComplete(); EmptySubscription.error(s, e) delivers
\* exactly onSubscribe(the singleton) then onError(e); nothing else (no
\* onNext) is ever delivered.
C12_StaticSignals ==
    variant = "Empty" =>
        /\ Len(log) = 2 * Len(C12_Static)
        /\ \A j \in 1..Len(C12_Static) :
               /\ log[2 * j - 1].cb = "onSubscribe"
               /\ log[2 * j - 1].sub = "Empty"
               /\ log[2 * j - 1].by = log[2 * j].by
               /\ calls[log[2 * j].by] = C12_Static[j]
               /\ IF C12_Static[j].op = "complete"
                  THEN log[2 * j].cb = "onComplete"
                  ELSE log[2 * j].cb = "onError" /\ log[2 * j].val = C12_Static[j].arg

\* one complete(s) and one error(s, 2) have been made
C12_Witness ==
    /\ variant = "Empty"
    /\ \E k \in CallIds : calls[k].op = "complete"
    /\ \E k \in CallIds : calls[k].op = "error" /\ calls[k].arg = 2
    /\ Len(log) = 4

----------------------------------------------------------------------------
(* C13 *)

\* the s.cancel() calls made by call k
C13_Cancels(k) == {j \in 1..Len(upCalls) : upCalls[j].by = k}

----------------------------------------------------------------------------
(* C14 *)

\* requestFusion has granted async fusion on the deferred subscription
C14_FusionGranted ==
    /\ variant = "Deferred"
    /\ \E k \in CallIds : calls[k].op = "requestFusion" /\ calls[k].ret = FC_ASYNC

\* this step is a call of request or complete
C14_RequestOrComplete ==
    /\ Len(calls') = Len(calls) + 1
    /\ calls'[Len(calls')].op \in {"request", "complete"}

\* C14: DeferrendScalarSubscription: once async fusion was granted, no call
\* of request(n) or complete(v) changes the request/value state or delivers
\* through the request/value branches.
C14_FusedBypassesRequestTrack ==
    [][(C14_FusionGranted /\ C14_RequestOrComplete) =>
          /\ mState' = mState
          /\ \/ stack' = stack
             \/ stack'[Len(stack')].path = "Deferred.complete.fused"]_vars

----------------------------------------------------------------------------
(* C15 *)

\* C15: ScalarSubscription: nothing is delivered after a cancel(): no
\* callback comes from a request made after the cancel, and a request inside
\* whose onNext the cancel was made delivers no onComplete().
C15_ScalarSilentAfterCancel ==
    variant = "Scalar" =>
        \A k \in CallIds : \A i \in LogIds :
            calls[k].op = "cancel" =>
                /\ log[i].by < k
                /\ ~(log[i].cb = "onComplete" /\ log[i].by = calls[k].inside)

\* no callback is delivered by a request made after a cancel()
C15_NoLaterRequestDelivers ==
    variant = "Scalar" =>
        \A k \in CallIds : \A i \in LogIds :
            calls[k].op = "cancel" => log[i].by < k

----------------------------------------------------------------------------
(* C16 *)

\* every combination of the three mode flags
C16_AllModes == 0..(FC_SYNC + FC_ASYNC + FC_BOUNDARY)

\* mode has the flag (a power of two) set
C16_HasBit(mode, flag) == (mode \div flag) % 2 = 1

C16_Expected(mode) ==
    IF C16_HasBit(mode, FC_ASYNC) /\ ~C16_HasBit(mode, FC_BOUNDARY)
    THEN FC_ASYNC
    ELSE FC_NONE

\* this step is a call of requestFusion on the deferred subscription
C16_Step ==
    /\ variant = "Deferred"
    /\ Len(calls') = Len(calls) + 1
    /\ calls'[Len(calls')].op = "requestFusion"

\* C16: DeferrendScalarSubscription.requestFusion(mode) returns ASYNC
\* exactly when mode has the ASYNC bit and not the BOUNDARY bit, NONE
\* otherwise; a call that returns NONE leaves mFused, mState and mValue as
\* they were.
C16_RequestFusionGrant ==
    /\ [](\A mode \in C16_AllModes : D_requestFusionRet(mode) = C16_Expected(mode))
    /\ [][C16_Step =>
            /\ calls'[Len(calls')].ret = C16_Expected(calls'[Len(calls')].arg)
            /\ calls'[Len(calls')].ret = FC_NONE
                   => UNCHANGED <<mState, mFused, mValue>>]_vars

\* ASYNC was granted, then ASYNC|BOUNDARY was refused while the queue held
\* a value
C16_Witness ==
    /\ variant = "Deferred"
    /\ mFused = "HAS_VALUE"
    /\ \E k \in CallIds :
           /\ calls[k].op = "requestFusion"
           /\ calls[k].arg = FC_ASYNC /\ calls[k].ret = FC_ASYNC
    /\ Len(calls) > 0
    /\ calls[Len(calls)].op = "requestFusion"
    /\ calls[Len(calls)].arg = FC_ASYNC + FC_BOUNDARY
    /\ calls[Len(calls)].ret = FC_NONE

----------------------------------------------------------------------------
(* C17 *)

\* cancel() has been called on the deferred subscription
C17_Cancelled ==
    /\ variant = "Deferred"
    /\ \E k \in CallIds : calls[k].op = "cancel"

\* C17: DeferrendScalarSubscription: after cancel(), whatever calls follow,
\* the request/value state stays CANCELLED and the fusion state stays
\* COMPLETE, so poll() returns empty and isEmpty() is true.
C17_CancelledAbsorbs ==
    C17_Cancelled =>
        /\ mState = "CANCELLED"
        /\ mFused = "COMPLETE"
        /\ D_pollRet = Null
        /\ D_isEmpty

\* the request/value half: mState never leaves CANCELLED
C17_StateStaysCancelled ==
    C17_Cancelled => mState = "CANCELLED"

----------------------------------------------------------------------------
(* C18 *)

\* the last call made is clear()
C18_AfterClear ==
    /\ calls # <<>>
    /\ calls[Len(calls)].op = "clear"

\* C18: ScalarSubscription and DeferrendScalarSubscription: size() is 0 or
\* 1, size() = 0 exactly when isEmpty() is true, isEmpty() is false exactly
\* when poll() would return the value, and right after clear() isEmpty() is
\* true and poll() would return empty.
C18_QueueViewConsistent ==
    /\ variant = "Scalar" =>
           /\ S_size \in {0, 1}
           /\ S_size = 0 <=> S_isEmpty = "true"
           /\ S_isEmpty = "false" <=> S_pollRet = scalarValue
           /\ C18_AfterClear => (S_isEmpty = "true" /\ S_pollRet = Null)
    /\ variant = "Deferred" =>
           /\ D_size \in {0, 1}
           /\ D_size = 0 <=> D_isEmpty
           /\ ~D_isEmpty <=> D_pollRet = mValue /\ mValue # Null
           /\ C18_AfterClear => (D_isEmpty /\ D_pollRet = Null)

\* the same with isEmpty() read for its truthiness on ScalarSubscription
C18_ConsistentUpToTruthiness ==
    /\ variant = "Scalar" =>
           /\ S_size \in {0, 1}
           /\ S_size = 0 <=> Truthy(S_isEmpty)
           /\ ~Truthy(S_isEmpty) <=> S_pollRet = scalarValue
           /\ C18_AfterClear => (Truthy(S_isEmpty) /\ S_pollRet = Null)
    /\ variant = "Deferred" =>
           /\ D_size \in {0, 1}
           /\ D_size = 0 <=> D_isEmpty
           /\ ~D_isEmpty <=> D_pollRet = mValue /\ mValue # Null
           /\ C18_AfterClear => (D_isEmpty /\ D_pollRet = Null)

----------------------------------------------------------------------------
(* C19 *)

\* this step is a call of request(n), n <= 0, on a scalar or deferred
\* subscription
C19_InvalidRequest ==
    /\ variant \in {"Scalar", "Deferred"}
    /\ Len(calls') = Len(calls) + 1
    /\ calls'[Len(calls')].op = "request"
    /\ calls'[Len(calls')].arg <= 0

\* C19: ScalarSubscription and DeferrendScalarSubscription: request(n) with
\* n <= 0 fails with the invalid-demand error, delivers no callback and
\* leaves the delivered flag, the request/value state, the stored value and
\* the fusion state as they were.
C19_InvalidRequestChangesNothing ==
    [][C19_InvalidRequest =>
          /\ calls'[Len(calls')].threw = InvalidDemand
          /\ UNCHANGED <<once, mState, mFused, mValue, log, stack>>]_vars

\* a failed request was followed by a valid one that delivered the value
C19_Witness ==
    /\ variant \in {"Scalar", "Deferred"}
    /\ \E k \in CallIds : \E j \in CallIds : \E i \in LogIds :
           /\ k < j
           /\ calls[k].op = "request" /\ calls[k].arg <= 0
           /\ calls[k].threw = InvalidDemand
           /\ \A h \in LogIds : log[h].by > k
           /\ calls[j].op = "request" /\ calls[j].arg > 0
           /\ log[i].cb = "onNext" /\ log[i].by = j

----------------------------------------------------------------------------
(* C20 *)

\* C20: DeferrendScalarSubscription: every onComplete() the subscriber
\* receives comes directly after an onNext delivered by the same complete or
\* request call, and no onNext comes after an onComplete().
C20_CallbackOrder ==
    variant = "Deferred" =>
        /\ \A i \in LogIds :
               log[i].cb = "onComplete" =>
                   /\ i > 1
                   /\ log[i - 1].cb = "onNext"
                   /\ log[i - 1].by = log[i].by
        /\ \A i \in LogIds : \A j \in LogIds :
               (i < j /\ log[i].cb = "onComplete") => log[j].cb # "onNext"

\* fusion was never granted
C20_NeverFused ==
    \A k \in CallIds : ~(calls[k].op = "requestFusion" /\ calls[k].ret = FC_ASYNC)

\* the ordering holds on every subscription that was never fused
C20_CallbackOrderUnfused ==
    C20_NeverFused => C20_CallbackOrder

====
